---- MODULE Spec2Model ----
(***************************************************************************)
(* Replacement-policy simulator of src/simulations/coalesce_sim.cpp:       *)
(* PerceptronBrain, the LRU / SRRIP / COALESCE policies, Simulator::access *)
(* and the workload driver of main.                                        *)
(*                                                                         *)
(* The cache geometry (number of sets, ways per set) is held in the state  *)
(* so that the same operators run on the driver's 64 x 8 cache and on the  *)
(* small caches used for exhaustive exploration.  The weight table is the  *)
(* finite map of the entries that differ from their construction value 0.  *)
(*                                                                         *)
(* Two smaller programs of the repository are modelled beside it: the MESI *)
(* directory tracer of src/mesi_sim.cpp (CoherenceController) and the      *)
(* PerceptronPredictor of src/simulations/old/coalesce_sim.cpp.            *)
(***************************************************************************)
EXTENDS Integers, Sequences, FiniteSets, TLC

\* ---------------------------------------------------------------- constants
NUM_SETS == 64
WAYS == 8
PERCEPTRON_TABLE_SIZE == 4096
SAMPLER_SIZE == 8
SAMPLING_RATE == 32

INVALID == 0
SHARED == 1
EXCLUSIVE == 2
MODIFIED == 3

\* 0x9e3779b9 reduced modulo 2^16: the hash is reduced modulo 4096, which
\* divides 2^16, so only these bits of the constant reach the result.
HASH_MAGIC_LOW16 == 31161

PC_BAD == 2989      \* 0xBAD
PC_F00D == 61453    \* 0xF00D

EPOCHS == 10
PERCEPTRON_ROWS == 4096
MIX_MAGIC_LOW12 == 2489
SCAN_LEN == 600
HOT_LEN == 400

\* ------------------------------------------------------------------- bounds
ModelSets == 2
ModelWays == 2
MaxAccesses == 5
MaxBrainOps == 4
MaxAgeRounds == 5
DriverChunk == 100
ModelCores == 2
ModelMemory == 2
MaxTrains == 64

\* -------------------------------------------------------------------- state
VARIABLES
    num_sets,                 \* geometry of this Simulator's cache
    ways,
    policy,                   \* "LRU" | "SRRIP" | "COALESCE"
    cache,                    \* Simulator::cache        [set][way] -> CacheLine
    hits, misses,             \* Simulator counters
    coherence_traffic_saved,
    lru_stacks,               \* LRU_Policy::lru_stacks  [set][way] -> rank
    rrpv_bits,                \* SRRIP_Policy::rrpv_bits [set][way] -> 0..3
    weights,                  \* PerceptronBrain::weights (non-zero entries)
    samplers,                 \* COALESCE_Policy::samplers [set] -> Seq(entry)
    is_sampled,               \* COALESCE_Policy::is_sampled [set] -> BOOLEAN
    fv,                       \* the find_victim call in progress, if any
    driver,                   \* main: the run, epoch, phase and loop index
    results,                  \* main: what print_stats reported, run by run
    last,                     \* history: the last operation and what it saw
    touch_count,              \* history: address -> number of accesses so far
    directory,                \* CoherenceController::directory [address]
    request,                  \* history: the last request and the entry it found
    table0,                   \* PerceptronPredictor::table0 (non-zero entries)
    table1,                   \* PerceptronPredictor::table1 (non-zero entries)
    consulted                 \* history: the last PerceptronPredictor call

\* the replacement-policy simulator
simulator_vars ==
    <<num_sets, ways, policy, cache, hits, misses, coherence_traffic_saved,
      lru_stacks, rrpv_bits, weights, samplers, is_sampled, fv, driver,
      results, last, touch_count>>

\* the MESI directory tracer
tracer_vars == <<directory, request>>

\* the PerceptronPredictor of the earlier COALESCE variant
predictor_vars == <<table0, table1, consulted>>

vars == <<simulator_vars, tracer_vars, predictor_vars>>

\* the Simulator, its policy and the Brain behind it, as one value
Sim ==
    [num_sets |-> num_sets, ways |-> ways, policy |-> policy, cache |-> cache,
     hits |-> hits, misses |-> misses,
     coherence_traffic_saved |-> coherence_traffic_saved,
     lru_stacks |-> lru_stacks, rrpv_bits |-> rrpv_bits, weights |-> weights,
     samplers |-> samplers, is_sampled |-> is_sampled, last |-> last]

\* the Simulator starts as the value `sim`
Starts(sim) ==
    /\ num_sets = sim.num_sets
    /\ ways = sim.ways
    /\ policy = sim.policy
    /\ cache = sim.cache
    /\ hits = sim.hits
    /\ misses = sim.misses
    /\ coherence_traffic_saved = sim.coherence_traffic_saved
    /\ lru_stacks = sim.lru_stacks
    /\ rrpv_bits = sim.rrpv_bits
    /\ weights = sim.weights
    /\ samplers = sim.samplers
    /\ is_sampled = sim.is_sampled
    /\ last = sim.last

\* the step that leaves the Simulator as the value `after`
Becomes(after) ==
    /\ num_sets' = after.num_sets
    /\ ways' = after.ways
    /\ policy' = after.policy
    /\ cache' = after.cache
    /\ hits' = after.hits
    /\ misses' = after.misses
    /\ coherence_traffic_saved' = after.coherence_traffic_saved
    /\ lru_stacks' = after.lru_stacks
    /\ rrpv_bits' = after.rrpv_bits
    /\ weights' = after.weights
    /\ samplers' = after.samplers
    /\ is_sampled' = after.is_sampled
    /\ last' = after.last

\* ------------------------------------------------------------------ helpers
SetsOf == 0..(num_sets - 1)
WaysOf == 0..(ways - 1)
Accesses == hits + misses

Min(S) == CHOOSE x \in S : \A y \in S : x <= y

RECURSIVE Xor(_, _)
Xor(a, b) ==
    IF a = 0 THEN b
    ELSE IF b = 0 THEN a
    ELSE (((a % 2) + (b % 2)) % 2) + 2 * Xor(a \div 2, b \div 2)

\* struct CacheLine default member initialisers
EmptyLine ==
    [valid |-> FALSE, tag |-> 0, pc |-> 0, sharers |-> 0, state |-> INVALID,
     lru_stack |-> 0, rrpv |-> 3]

\* struct SamplerEntry default member initialisers
EmptySamplerEntry ==
    [valid |-> FALSE, partial_tag |-> 0, pc |-> 0, sharers |-> 0,
     state |-> INVALID, last_prediction |-> 0]

\* ---------------------------------------------------------- PerceptronBrain
WeightAt(w, idx) == IF idx \in DOMAIN w THEN w[idx] ELSE 0

SetWeight(w, idx, v) ==
    [i \in (IF v = 0 THEN DOMAIN w \ {idx} ELSE DOMAIN w \cup {idx}) |->
        IF i = idx THEN v ELSE w[i]]

get_hash(pc, sharers, state) ==
    (Xor((Xor(Xor(pc, sharers * 16), state * 256)) % 65536, HASH_MAGIC_LOW16))
        % PERCEPTRON_TABLE_SIZE

predict(w, pc, sharers, state) == WeightAt(w, get_hash(pc, sharers, state))

\* mutant: the lookup bumps the entry it reads
predict_weights_bump(w, pc, sharers, state) ==
    LET idx == get_hash(pc, sharers, state)
    IN  SetWeight(w, idx, WeightAt(w, idx) + 1)

\* the weight table as predict leaves it
predict_weights(w, pc, sharers, state) == w

\* mutant: 8-bit arithmetic without the saturation tests
train_wrap(w, pc, sharers, state, positive) ==
    LET idx == get_hash(pc, sharers, state)
        old == WeightAt(w, idx)
    IN  IF positive
        THEN SetWeight(w, idx, IF old = 127 THEN -128 ELSE old + 1)
        ELSE SetWeight(w, idx, IF old = -128 THEN 127 ELSE old - 1)

train(w, pc, sharers, state, positive) ==
    LET idx == get_hash(pc, sharers, state)
        old == WeightAt(w, idx)
    IN  IF positive
        THEN IF old < 127 THEN SetWeight(w, idx, old + 1) ELSE w
        ELSE IF old > -128 THEN SetWeight(w, idx, old - 1) ELSE w

\* --------------------------------------------------------------- LRU_Policy
LRU_init(W) == [w \in 0..(W - 1) |-> w]

\* mutant: the comparison of the shift loop reversed
LRU_update_on_hit_reversed(stack, way) ==
    LET old_pos == stack[way]
    IN  [w \in DOMAIN stack |->
            IF w = way THEN 0
            ELSE IF stack[w] > old_pos THEN stack[w] + 1 ELSE stack[w]]

LRU_update_on_hit(stack, way) ==
    LET old_pos == stack[way]
    IN  [w \in DOMAIN stack |->
            IF w = way THEN 0
            ELSE IF stack[w] < old_pos THEN stack[w] + 1 ELSE stack[w]]

\* mutant: the installed way takes rank 0 and no other rank moves
LRU_update_on_miss_no_shift(stack, way) == [stack EXCEPT ![way] = 0]

LRU_update_on_miss(stack, way) ==
    LET old_pos == stack[way]
    IN  [w \in DOMAIN stack |->
            IF w = way THEN 0
            ELSE IF stack[w] < old_pos THEN stack[w] + 1 ELSE stack[w]]

\* mutant: the scan stops at the most recently used rank
LRU_find_victim_mru(set, stack, W) ==
    LET stop == {w \in 0..(W - 1) : ~set[w].valid \/ stack[w] = 0}
    IN  IF stop = {} THEN 0 ELSE Min(stop)

\* mutant: the scan looks at the ranks only, not at the valid bits
LRU_find_victim_ranks_only(set, stack, W) ==
    LET stop == {w \in 0..(W - 1) : stack[w] = W - 1}
    IN  IF stop = {} THEN 0 ELSE Min(stop)

LRU_find_victim(set, stack, W) ==
    LET stop == {w \in 0..(W - 1) : ~set[w].valid \/ stack[w] = W - 1}
    IN  IF stop = {} THEN 0 ELSE Min(stop)

\* ------------------------------------------------------------- SRRIP_Policy
SRRIP_init(W) == [w \in 0..(W - 1) |-> 3]

SRRIP_update_on_hit(rr, way) == [rr EXCEPT ![way] = 0]

\* mutant: a fresh line is inserted at Distant (3)
SRRIP_update_on_miss_distant(rr, way) == [rr EXCEPT ![way] = 3]

SRRIP_update_on_miss(rr, way) == [rr EXCEPT ![way] = 2]

\* mutant: the for loop runs from the last way down
SRRIP_scan_downwards(set, rr, W) ==
    LET stop == {w \in 0..(W - 1) : ~set[w].valid \/ rr[w] = 3}
    IN  IF stop = {} THEN -1
        ELSE CHOOSE x \in stop : \A y \in stop : x >= y

\* one pass of the for loop of find_victim: the way it returns, or -1
SRRIP_scan(set, rr, W) ==
    LET stop == {w \in 0..(W - 1) : ~set[w].valid \/ rr[w] = 3}
    IN  IF stop = {} THEN -1 ELSE Min(stop)

\* mutant: the ageing loop saturates one step early
SRRIP_age_short(rr) == [w \in DOMAIN rr |-> IF rr[w] < 2 THEN rr[w] + 1 ELSE rr[w]]

\* the ageing loop of find_victim
SRRIP_age(rr) == [w \in DOMAIN rr |-> IF rr[w] < 3 THEN rr[w] + 1 ELSE rr[w]]

\* mutant: one pass of the scan, no ageing loop around it
SRRIP_find_victim_one_pass(set, rr, W, rounds) ==
    [way |-> SRRIP_scan(set, rr, W), rrpv |-> rr, rounds |-> rounds]

\* while(true) { scan; age }: the returned way, the aged values, the rounds
RECURSIVE SRRIP_find_victim(_, _, _, _)
SRRIP_find_victim(set, rr, W, rounds) ==
    LET w == SRRIP_scan(set, rr, W)
    IN  IF w >= 0 THEN [way |-> w, rrpv |-> rr, rounds |-> rounds]
        ELSE SRRIP_find_victim(set, SRRIP_age(rr), W, rounds + 1)

\* ---------------------------------------------------------- COALESCE_Policy
COALESCE_is_sampled(S) == [i \in 0..(S - 1) |-> i % SAMPLING_RATE = 0]

COALESCE_samplers(S) ==
    [i \in 0..(S - 1) |-> [k \in 1..SAMPLER_SIZE |-> EmptySamplerEntry]]

\* mutant: a Modified bonus smaller than the sharer bonus
COALESCE_vote_small_bonus(w, line) ==
    predict(w, line.pc, line.sharers, line.state)
        + (IF line.state = MODIFIED THEN 20 ELSE 0)
        + (IF line.sharers > 2 THEN 30 ELSE 0)

\* the vote compared across ways: raw prediction plus the coherence bonuses
COALESCE_vote(w, line) ==
    predict(w, line.pc, line.sharers, line.state)
        + (IF line.state = MODIFIED THEN 60 ELSE 0)
        + (IF line.sharers > 2 THEN 30 ELSE 0)

\* mutant: the comparison admits equal votes, so the last minimum wins
RECURSIVE COALESCE_scan_last_tie(_, _, _, _, _, _)
COALESCE_scan_last_tie(set, wts, W, w, victim, min_vote) ==
    IF w >= W THEN [ret |-> -1, victim |-> victim, min_vote |-> min_vote]
    ELSE IF ~set[w].valid
         THEN [ret |-> w, victim |-> victim, min_vote |-> min_vote]
    ELSE LET vote == COALESCE_vote(wts, set[w])
         IN  IF vote <= min_vote
             THEN COALESCE_scan_last_tie(set, wts, W, w + 1, w, vote)
             ELSE COALESCE_scan_last_tie(set, wts, W, w + 1, victim,
                                         min_vote)

\* the for loop of find_victim from way w on: `ret` is the way returned from
\* inside the loop (an invalid way) or -1 when the loop ran to its end
RECURSIVE COALESCE_scan(_, _, _, _, _, _)
COALESCE_scan(set, wts, W, w, victim, min_vote) ==
    IF w >= W THEN [ret |-> -1, victim |-> victim, min_vote |-> min_vote]
    ELSE IF ~set[w].valid
         THEN [ret |-> w, victim |-> victim, min_vote |-> min_vote]
    ELSE LET vote == COALESCE_vote(wts, set[w])
         IN  IF vote < min_vote
             THEN COALESCE_scan(set, wts, W, w + 1, w, vote)
             ELSE COALESCE_scan(set, wts, W, w + 1, victim, min_vote)

\* mutant: the record and the punishment are taken from way 0
COALESCE_find_victim_first_way(set, wts, smp, sampled, W) ==
    LET r == COALESCE_scan(set, wts, W, 0, -1, 99999)
    IN  IF r.ret >= 0
        THEN [way |-> r.ret, weights |-> wts, sampler |-> smp,
              min_vote |-> r.min_vote]
        ELSE IF sampled
        THEN LET victim_line == set[0]
             IN  [way |-> r.victim,
                  weights |-> train(wts, victim_line.pc, victim_line.sharers,
                                    victim_line.state, FALSE),
                  sampler |-> Append(smp,
                      [valid |-> TRUE, partial_tag |-> victim_line.tag,
                       pc |-> victim_line.pc, sharers |-> victim_line.sharers,
                       state |-> victim_line.state,
                       last_prediction |-> r.min_vote]),
                  min_vote |-> r.min_vote]
        ELSE [way |-> r.victim, weights |-> wts, sampler |-> smp,
              min_vote |-> r.min_vote]

\* find_victim: the returned way, the weight table and the sampler after it
COALESCE_find_victim(set, wts, smp, sampled, W) ==
    LET r == COALESCE_scan(set, wts, W, 0, -1, 99999)
    IN  IF r.ret >= 0
        THEN [way |-> r.ret, weights |-> wts, sampler |-> smp,
              min_vote |-> r.min_vote]
        ELSE IF sampled
        THEN LET victim_line == set[r.victim]
             IN  [way |-> r.victim,
                  weights |-> train(wts, victim_line.pc, victim_line.sharers,
                                    victim_line.state, FALSE),
                  sampler |-> Append(smp,
                      [valid |-> TRUE, partial_tag |-> victim_line.tag,
                       pc |-> victim_line.pc, sharers |-> victim_line.sharers,
                       state |-> victim_line.state,
                       last_prediction |-> r.min_vote]),
                  min_vote |-> r.min_vote]
        ELSE [way |-> r.victim, weights |-> wts, sampler |-> smp,
              min_vote |-> r.min_vote]

\* mutant: the reward is given in every set
COALESCE_update_on_hit_every_set(wts, sampled, line) ==
    train(wts, line.pc, line.sharers, line.state, TRUE)

COALESCE_update_on_hit(wts, sampled, line) ==
    IF sampled THEN train(wts, line.pc, line.sharers, line.state, TRUE)
    ELSE wts

\* ---------------------------------------------------------------- Simulator
SetIndex(addr, S) == (addr \div 64) % S

\* mutant: the tag is the block number
Tag_block(addr) == addr \div 64

\* uint64_t tag = addr
Tag(addr) == addr

\* mutant: the hit loop looks at way 0 only
HitWay_first_way(set, tag, W) ==
    IF set[0].valid /\ set[0].tag = tag THEN 0 ELSE -1

\* the way the hit loop of access stops at, or -1
HitWay(set, tag, W) ==
    LET match == {w \in 0..(W - 1) : set[w].valid /\ set[w].tag = tag}
    IN  IF match = {} THEN -1 ELSE Min(match)

\* mutant: both conditions are required
CoherenceWin_both(line) == line.state = MODIFIED /\ line.sharers > 1

CoherenceWin(line) == line.state = MODIFIED \/ line.sharers > 1

\* mutant: the initialiser list misses the sharer count
InstalledLine_without_sharers(tag, pc, sharers, state) ==
    [valid |-> TRUE, tag |-> tag, pc |-> pc, sharers |-> 0,
     state |-> state, lru_stack |-> 0, rrpv |-> 3]

InstalledLine(tag, pc, sharers, state) ==
    [valid |-> TRUE, tag |-> tag, pc |-> pc, sharers |-> sharers,
     state |-> state, lru_stack |-> 0, rrpv |-> 3]

\* what find_victim returns for the active policy, with its side effects
FindVictim(sim, set_idx) ==
    LET set == sim.cache[set_idx]
    IN  CASE sim.policy = "LRU" ->
                [way |-> LRU_find_victim(set, sim.lru_stacks[set_idx],
                                         sim.ways),
                 rrpv |-> sim.rrpv_bits[set_idx], rounds |-> 0,
                 weights |-> sim.weights, sampler |-> sim.samplers[set_idx]]
          [] sim.policy = "SRRIP" ->
                LET r == SRRIP_find_victim(set, sim.rrpv_bits[set_idx],
                                           sim.ways, 0)
                IN  [way |-> r.way, rrpv |-> r.rrpv, rounds |-> r.rounds,
                     weights |-> sim.weights,
                     sampler |-> sim.samplers[set_idx]]
          [] OTHER ->
                LET r == COALESCE_find_victim(set, sim.weights,
                            sim.samplers[set_idx], sim.is_sampled[set_idx],
                            sim.ways)
                IN  [way |-> r.way, rrpv |-> sim.rrpv_bits[set_idx],
                     rounds |-> 0, weights |-> r.weights,
                     sampler |-> r.sampler]

\* history: what predict returns for every way of the set (COALESCE only)
RawScores(sim, set_idx) ==
    IF sim.policy = "COALESCE"
    THEN [w \in 0..(sim.ways - 1) |->
            predict(sim.weights, sim.cache[set_idx][w].pc,
                    sim.cache[set_idx][w].sharers,
                    sim.cache[set_idx][w].state)]
    ELSE <<>>

\* reference recency list: `way` moved to the front of `list`
MoveToFront(list, way) ==
    <<way>> \o SelectSeq(list, LAMBDA x : x # way)

\* history: for every set accessed so far, its ways in the order of their
\* last hit or install, the latest first (LRU only)
Recency(sim, set_idx, way) ==
    IF sim.policy = "LRU"
    THEN LET old == sim.last.recency
             list == IF set_idx \in DOMAIN old THEN old[set_idx] ELSE <<>>
         IN  [s \in DOMAIN old \cup {set_idx} |->
                 IF s = set_idx THEN MoveToFront(list, way) ELSE old[s]]
    ELSE <<>>

\* history: the operation just performed and the set as it found it
Seen(sim, op, addr, pc, sharers, state, set_idx, way, rounds) ==
    [op |-> op, addr |-> addr, pc |-> pc, sharers |-> sharers,
     state |-> state, set |-> set_idx, way |-> way,
     pre |-> sim.cache[set_idx], pre_lru |-> sim.lru_stacks[set_idx],
     pre_rrpv |-> sim.rrpv_bits[set_idx], raw |-> RawScores(sim, set_idx),
     rounds |-> rounds, recency |-> Recency(sim, set_idx, way)]

\* mutant: update_on_hit is handed the incoming access's signature
AccessHit_incoming_signature(sim, addr, pc, sharers, state, set_idx, w) ==
    LET line == sim.cache[set_idx][w]
        incoming == [line EXCEPT !.pc = pc, !.sharers = sharers,
                                 !.state = state]
    IN  [sim EXCEPT
            !.hits = sim.hits + 1,
            !.lru_stacks =
                IF sim.policy = "LRU"
                THEN [sim.lru_stacks EXCEPT ![set_idx] =
                        LRU_update_on_hit(sim.lru_stacks[set_idx], w)]
                ELSE sim.lru_stacks,
            !.rrpv_bits =
                IF sim.policy = "SRRIP"
                THEN [sim.rrpv_bits EXCEPT ![set_idx] =
                        SRRIP_update_on_hit(sim.rrpv_bits[set_idx], w)]
                ELSE sim.rrpv_bits,
            !.weights =
                IF sim.policy = "COALESCE"
                THEN COALESCE_update_on_hit(sim.weights,
                                            sim.is_sampled[set_idx], incoming)
                ELSE sim.weights,
            !.coherence_traffic_saved =
                IF CoherenceWin(line) THEN sim.coherence_traffic_saved + 1
                ELSE sim.coherence_traffic_saved,
            !.last = Seen(sim, "hit", addr, pc, sharers, state, set_idx, w, 0)]

\* mutant: a hit refreshes the resident line with the incoming signature
AccessHit_refreshes_line(sim, addr, pc, sharers, state, set_idx, w) ==
    LET line == sim.cache[set_idx][w]
    IN  [sim EXCEPT
            !.hits = sim.hits + 1,
            !.cache = [sim.cache EXCEPT ![set_idx][w] =
                        [line EXCEPT !.pc = pc, !.sharers = sharers,
                                     !.state = state]],
            !.lru_stacks =
                IF sim.policy = "LRU"
                THEN [sim.lru_stacks EXCEPT ![set_idx] =
                        LRU_update_on_hit(sim.lru_stacks[set_idx], w)]
                ELSE sim.lru_stacks,
            !.rrpv_bits =
                IF sim.policy = "SRRIP"
                THEN [sim.rrpv_bits EXCEPT ![set_idx] =
                        SRRIP_update_on_hit(sim.rrpv_bits[set_idx], w)]
                ELSE sim.rrpv_bits,
            !.weights =
                IF sim.policy = "COALESCE"
                THEN COALESCE_update_on_hit(sim.weights,
                                            sim.is_sampled[set_idx], line)
                ELSE sim.weights,
            !.coherence_traffic_saved =
                IF CoherenceWin(line) THEN sim.coherence_traffic_saved + 1
                ELSE sim.coherence_traffic_saved,
            !.last = Seen(sim, "hit", addr, pc, sharers, state, set_idx, w, 0)]

\* Simulator::access, hit branch
AccessHit(sim, addr, pc, sharers, state, set_idx, w) ==
    LET line == sim.cache[set_idx][w]
    IN  [sim EXCEPT
            !.hits = sim.hits + 1,
            !.lru_stacks =
                IF sim.policy = "LRU"
                THEN [sim.lru_stacks EXCEPT ![set_idx] =
                        LRU_update_on_hit(sim.lru_stacks[set_idx], w)]
                ELSE sim.lru_stacks,
            !.rrpv_bits =
                IF sim.policy = "SRRIP"
                THEN [sim.rrpv_bits EXCEPT ![set_idx] =
                        SRRIP_update_on_hit(sim.rrpv_bits[set_idx], w)]
                ELSE sim.rrpv_bits,
            !.weights =
                IF sim.policy = "COALESCE"
                THEN COALESCE_update_on_hit(sim.weights,
                                            sim.is_sampled[set_idx], line)
                ELSE sim.weights,
            !.coherence_traffic_saved =
                IF CoherenceWin(line) THEN sim.coherence_traffic_saved + 1
                ELSE sim.coherence_traffic_saved,
            !.last = Seen(sim, "hit", addr, pc, sharers, state, set_idx, w, 0)]

\* Simulator::access, miss branch
AccessMiss(sim, addr, pc, sharers, state, set_idx) ==
    LET found == FindVictim(sim, set_idx)
        victim_way == found.way
    IN  [sim EXCEPT
            !.misses = sim.misses + 1,
            !.cache = [sim.cache EXCEPT ![set_idx][victim_way] =
                          InstalledLine(Tag(addr), pc, sharers, state)],
            !.lru_stacks =
                IF sim.policy = "LRU"
                THEN [sim.lru_stacks EXCEPT ![set_idx] =
                        LRU_update_on_miss(sim.lru_stacks[set_idx],
                                           victim_way)]
                ELSE sim.lru_stacks,
            !.rrpv_bits =
                IF sim.policy = "SRRIP"
                THEN [sim.rrpv_bits EXCEPT ![set_idx] =
                        SRRIP_update_on_miss(found.rrpv, victim_way)]
                ELSE sim.rrpv_bits,
            !.weights = found.weights,
            !.samplers = [sim.samplers EXCEPT ![set_idx] = found.sampler],
            !.last = Seen(sim, "miss", addr, pc, sharers, state, set_idx,
                          victim_way, found.rounds)]

\* Simulator::access: the Simulator after the call
access(sim, addr, pc, sharers, state) ==
    LET set_idx == SetIndex(addr, sim.num_sets)
        w == HitWay(sim.cache[set_idx], Tag(addr), sim.ways)
    IN  IF w >= 0
        THEN AccessHit(sim, addr, pc, sharers, state, set_idx, w)
        ELSE AccessMiss(sim, addr, pc, sharers, state, set_idx)

\* cache.resize(NUM_SETS, std::vector<CacheLine>(WAYS))
FreshCache(S, W) == [s \in 0..(S - 1) |-> [w \in 0..(W - 1) |-> EmptyLine]]

NoOp ==
    [op |-> "none", addr |-> 0, pc |-> 0, sharers |-> 0, state |-> INVALID,
     set |-> 0, way |-> 0, pre |-> <<>>, pre_lru |-> <<>>, pre_rrpv |-> <<>>,
     raw |-> <<>>, rounds |-> 0, recency |-> <<>>]

\* a Simulator of S sets of W ways with a policy object p, as constructed,
\* on a Brain whose weights are wts
Constructed(S, W, p, wts) ==
    [num_sets |-> S, ways |-> W, policy |-> p, cache |-> FreshCache(S, W),
     hits |-> 0, misses |-> 0, coherence_traffic_saved |-> 0,
     lru_stacks |-> [s \in 0..(S - 1) |-> LRU_init(W)],
     rrpv_bits |-> [s \in 0..(S - 1) |-> SRRIP_init(W)],
     weights |-> wts,
     samplers |-> COALESCE_samplers(S),
     is_sampled |-> COALESCE_is_sampled(S),
     last |-> NoOp]

\* no find_victim call in progress
FvIdle == [pc |-> "idle", addr |-> 0, pcv |-> 0, sharers |-> 0,
           state |-> INVALID, rounds |-> 0]

\* main has not started a run
DriverIdle == [run |-> 0, epoch |-> 0, phase |-> "idle", i |-> 0,
               hot_hits |-> 0, flushes |-> 0]

\* PerceptronBrain(): every weight 0
BrainConstruct == <<>>

\* ------------------------------------- mesi_sim.cpp: CoherenceController
\* DirectoryEntry(): state INVALID, no sharers
DirectoryEntry == [state |-> "INVALID", sharers |-> {}]

\* CoherenceController(): directory.resize(MEMORY_SIZE)
CoherenceController == [address \in 0..(ModelMemory - 1) |-> DirectoryEntry]

\* no request handled yet
NoRequest ==
    [op |-> "none", coreId |-> 0, address |-> 0, found |-> DirectoryEntry]

TracerStarts ==
    /\ directory = CoherenceController
    /\ request = NoRequest

handleReadRequest(dir, coreId, address) ==
    LET line == dir[address]
    IN  IF line.state = "INVALID"
        THEN [dir EXCEPT ![address] =
                [state |-> "EXCLUSIVE", sharers |-> line.sharers \cup {coreId}]]
        ELSE IF line.state = "EXCLUSIVE" \/ line.state = "MODIFIED"
        THEN [dir EXCEPT ![address] =
                [state |-> "SHARED", sharers |-> line.sharers \cup {coreId}]]
        ELSE IF line.state = "SHARED"
        THEN [dir EXCEPT ![address] =
                [line EXCEPT !.sharers = line.sharers \cup {coreId}]]
        ELSE dir

\* mutant: the sharers are not cleared before the writer is inserted
handleWriteRequest_without_clear(dir, coreId, address) ==
    [dir EXCEPT ![address] =
        [state |-> "MODIFIED", sharers |-> dir[address].sharers \cup {coreId}]]

\* sharers.clear(); sharers.insert(coreId); state = MODIFIED
handleWriteRequest(dir, coreId, address) ==
    [dir EXCEPT ![address] = [state |-> "MODIFIED", sharers |-> {coreId}]]

\* ------------------------------ old/coalesce_sim.cpp: PerceptronPredictor
\* a value stored in an int8_t
Int8(v) == ((v + 128) % 256) - 128

\* a ^= b + 0x9e3779b9 + (a << 6) + (a >> 2); return a % PERCEPTRON_ROWS:
\* the low 12 bits of the sum and of the exclusive or are those of their
\* operands' low 12 bits
mix_hash(a, b) ==
    Xor(a % PERCEPTRON_ROWS,
        (b + MIX_MAGIC_LOW12 + (a * 64) + (a \div 4)) % PERCEPTRON_ROWS)

\* PerceptronPredictor(): both tables all 0
PredictorStarts ==
    /\ table0 = <<>>
    /\ table1 = <<>>
    /\ consulted = [calls |-> 0, op |-> "none", pc |-> 0, sharers |-> 0,
                    vote |-> 0]

get_vote(t0, t1, pc, sharers) ==
    LET idx0 == pc % PERCEPTRON_ROWS
        idx1 == mix_hash(pc, sharers)
    IN  WeightAt(t0, idx0) + WeightAt(t1, idx1)

\* one table's entry after train
Trained(t, idx, positive) ==
    IF positive
    THEN IF WeightAt(t, idx) < 127
         THEN SetWeight(t, idx, Int8(WeightAt(t, idx) + 1)) ELSE t
    ELSE IF WeightAt(t, idx) > -128
         THEN SetWeight(t, idx, Int8(WeightAt(t, idx) - 1)) ELSE t

\* PerceptronPredictor::train: the two tables after the call
PerceptronPredictor_train(t0, t1, pc, sharers, positive) ==
    [table0 |-> Trained(t0, pc % PERCEPTRON_ROWS, positive),
     table1 |-> Trained(t1, mix_hash(pc, sharers), positive)]

\* ------------------------------------------- exploration: arbitrary accesses
Policies == {"LRU", "SRRIP", "COALESCE"}

\* ModelWays + 1 addresses of set 0 and one address of set 1
Addrs == (0..ModelWays) \cup {64}

\* the (pc, sharers, state) annotations the explored accesses carry
SigList == <<<<PC_BAD, 0, EXCLUSIVE>>, <<PC_F00D, 4, MODIFIED>>,
             <<PC_F00D, 4, SHARED>>, <<PC_BAD, 2, MODIFIED>>>>

\* every address is accessed under two of the annotations
SigsOf(addr) == {SigList[(addr % 4) + 1], SigList[((addr + 1) % 4) + 1]}

Touched(tc, a) == IF a \in DOMAIN tc THEN tc[a] ELSE 0

Touch(tc, a) ==
    [x \in DOMAIN tc \cup {a} |-> IF x = a THEN Touched(tc, a) + 1 ELSE tc[x]]

Init ==
    /\ TracerStarts /\ PredictorStarts
    /\ \E p \in Policies :
          Starts(Constructed(ModelSets, ModelWays, p, BrainConstruct))
    /\ fv = FvIdle
    /\ driver = DriverIdle
    /\ results = <<>>
    /\ touch_count = <<>>

Access ==
    /\ UNCHANGED <<tracer_vars, predictor_vars>>
    /\ Accesses < MaxAccesses
    /\ \E addr \in Addrs : \E sig \in SigsOf(addr) :
          /\ Becomes(access(Sim, addr, sig[1], sig[2], sig[3]))
          /\ touch_count' = Touch(touch_count, addr)
    /\ UNCHANGED <<fv, driver, results>>

Next == Access

Spec == Init /\ [][Next]_vars

\* ------------------------------------- PerceptronBrain driven on its own
BrainSigs == {SigList[1], SigList[2]}

\* weights that repeated training reaches: the ends of the range and 0
BrainValues == {-128, -127, 0, 126, 127}

BrainTables ==
    LET idxs == {get_hash(sig[1], sig[2], sig[3]) : sig \in BrainSigs}
    IN  {[i \in {j \in idxs : v[j] # 0} |-> v[i]] : v \in [idxs -> BrainValues]}

\* history: no call of the Brain yet
BrainNoOp(wts) ==
    [op |-> "none", n |-> 0, pc |-> 0, sharers |-> 0, state |-> INVALID,
     positive |-> FALSE, value |-> 0, pre_weights |-> wts,
     prev_op |-> "none", prev_sig |-> <<0, 0, INVALID>>, prev_value |-> 0]

BrainInit ==
    /\ TracerStarts /\ PredictorStarts
    /\ \E wts \in BrainTables :
          Starts([Constructed(ModelSets, ModelWays, "COALESCE", wts)
                     EXCEPT !.last = BrainNoOp(wts)])
    /\ fv = FvIdle
    /\ driver = DriverIdle
    /\ results = <<>>
    /\ touch_count = <<>>

\* history: the call just made, the table before it and the call before it
BrainRecord(op, sig, positive, value) ==
    [op |-> op, n |-> last.n + 1, pc |-> sig[1], sharers |-> sig[2],
     state |-> sig[3], positive |-> positive, value |-> value,
     pre_weights |-> weights, prev_op |-> last.op,
     prev_sig |-> <<last.pc, last.sharers, last.state>>,
     prev_value |-> last.value]

\* a call of PerceptronBrain::train
Train ==
    /\ UNCHANGED <<tracer_vars, predictor_vars>>
    /\ last.n < MaxBrainOps
    /\ \E sig \in BrainSigs, positive \in BOOLEAN :
          /\ weights' = train(weights, sig[1], sig[2], sig[3], positive)
          /\ last' = BrainRecord("train", sig, positive, 0)
    /\ UNCHANGED <<num_sets, ways, policy, cache, hits, misses,
                   coherence_traffic_saved, lru_stacks, rrpv_bits, samplers,
                   is_sampled, fv, driver, results, touch_count>>

\* a call of PerceptronBrain::predict
Predict ==
    /\ UNCHANGED <<tracer_vars, predictor_vars>>
    /\ last.n < MaxBrainOps
    /\ \E sig \in BrainSigs :
          /\ weights' = predict_weights(weights, sig[1], sig[2], sig[3])
          /\ last' = BrainRecord("predict", sig, FALSE,
                                 predict(weights, sig[1], sig[2], sig[3]))
    /\ UNCHANGED <<num_sets, ways, policy, cache, hits, misses,
                   coherence_traffic_saved, lru_stacks, rrpv_bits, samplers,
                   is_sampled, fv, driver, results, touch_count>>

BrainNext == Train \/ Predict

BrainSpec == BrainInit /\ [][BrainNext]_vars

\* ------------------- SRRIP with the loop of find_victim taken step by step
SrripInit ==
    /\ TracerStarts /\ PredictorStarts
    /\ Starts(Constructed(ModelSets, ModelWays, "SRRIP", BrainConstruct))
    /\ fv = FvIdle
    /\ driver = DriverIdle
    /\ results = <<>>
    /\ touch_count = <<>>

\* access that finds its line: the hit branch runs to its return
SrripHit ==
    /\ UNCHANGED <<tracer_vars, predictor_vars>>
    /\ fv.pc = "idle"
    /\ Accesses < MaxAccesses
    /\ \E addr \in Addrs : \E sig \in SigsOf(addr) :
          LET set_idx == SetIndex(addr, num_sets)
              w == HitWay(cache[set_idx], Tag(addr), ways)
          IN  /\ w >= 0
              /\ Becomes(AccessHit(Sim, addr, sig[1], sig[2], sig[3],
                                   set_idx, w))
              /\ touch_count' = Touch(touch_count, addr)
    /\ UNCHANGED <<fv, driver, results>>

\* access that misses: the miss is counted and find_victim is entered
SrripMiss ==
    /\ UNCHANGED <<tracer_vars, predictor_vars>>
    /\ fv.pc = "idle"
    /\ Accesses < MaxAccesses
    /\ \E addr \in Addrs : \E sig \in SigsOf(addr) :
          /\ HitWay(cache[SetIndex(addr, num_sets)], Tag(addr), ways) < 0
          /\ fv' = [pc |-> "scan", addr |-> addr, pcv |-> sig[1],
                    sharers |-> sig[2], state |-> sig[3], rounds |-> 0]
          /\ touch_count' = Touch(touch_count, addr)
    /\ misses' = misses + 1
    /\ UNCHANGED <<num_sets, ways, policy, cache, hits,
                   coherence_traffic_saved, lru_stacks, rrpv_bits, weights,
                   samplers, is_sampled, driver, results, last>>

\* the for loop of find_victim returns a way: access installs the line
SrripScan ==
    /\ UNCHANGED <<tracer_vars, predictor_vars>>
    /\ fv.pc = "scan"
    /\ LET set_idx == SetIndex(fv.addr, num_sets)
           w == SRRIP_scan(cache[set_idx], rrpv_bits[set_idx], ways)
       IN  /\ w >= 0
           /\ cache' = [cache EXCEPT ![set_idx][w] =
                  InstalledLine(Tag(fv.addr), fv.pcv, fv.sharers, fv.state)]
           /\ rrpv_bits' = [rrpv_bits EXCEPT ![set_idx] =
                  SRRIP_update_on_miss(rrpv_bits[set_idx], w)]
           /\ last' = Seen(Sim, "miss", fv.addr, fv.pcv, fv.sharers,
                           fv.state, set_idx, w, fv.rounds)
    /\ fv' = FvIdle
    /\ UNCHANGED <<num_sets, ways, policy, hits, misses,
                   coherence_traffic_saved, lru_stacks, weights, samplers,
                   is_sampled, driver, results, touch_count>>

\* the for loop of find_victim found no way: one ageing round
SrripAge ==
    /\ UNCHANGED <<tracer_vars, predictor_vars>>
    /\ fv.pc = "scan"
    /\ fv.rounds < MaxAgeRounds
    /\ LET set_idx == SetIndex(fv.addr, num_sets)
       IN  /\ SRRIP_scan(cache[set_idx], rrpv_bits[set_idx], ways) < 0
           /\ rrpv_bits' = [rrpv_bits EXCEPT ![set_idx] =
                  SRRIP_age(rrpv_bits[set_idx])]
    /\ fv' = [fv EXCEPT !.rounds = fv.rounds + 1]
    /\ UNCHANGED <<num_sets, ways, policy, cache, hits, misses,
                   coherence_traffic_saved, lru_stacks, weights, samplers,
                   is_sampled, driver, results, last, touch_count>>

SrripNext == SrripHit \/ SrripMiss \/ SrripScan \/ SrripAge

\* single-threaded code: a loop that can take a step takes it
SrripSpec ==
    /\ SrripInit
    /\ [][SrripNext]_vars
    /\ WF_vars(SrripScan)
    /\ WF_vars(SrripAge)

\* ------------------------------------------------------ scanning workload
\* ModelWays + 1 addresses of every set, more than the cache holds
ScanAddrs ==
    UNION {{64 * s + i : i \in 0..ModelWays} : s \in 0..(ModelSets - 1)}

MaxScan == ModelSets * ModelWays + 1

ScanSig(addr) == SigList[(addr % 4) + 1]

ScanInit == Init

\* the next access of the scan: an address above every address touched
ScanAccess ==
    /\ UNCHANGED <<tracer_vars, predictor_vars>>
    /\ Accesses < MaxScan
    /\ \E addr \in ScanAddrs :
          /\ \A a \in DOMAIN touch_count : a < addr
          /\ Becomes(access(Sim, addr, ScanSig(addr)[1], ScanSig(addr)[2],
                            ScanSig(addr)[3]))
          /\ touch_count' = Touch(touch_count, addr)
    /\ UNCHANGED <<fv, driver, results>>

\* the scan is broken once: the address just accessed is accessed again
ScanAgain ==
    /\ UNCHANGED <<tracer_vars, predictor_vars>>
    /\ Accesses < MaxScan
    /\ last.op # "none"
    /\ \A a \in DOMAIN touch_count : touch_count[a] = 1
    /\ Becomes(access(Sim, last.addr, ScanSig(last.addr)[1],
                      ScanSig(last.addr)[2], ScanSig(last.addr)[3]))
    /\ touch_count' = Touch(touch_count, last.addr)
    /\ UNCHANGED <<fv, driver, results>>

ScanNext == ScanAccess \/ ScanAgain

ScanSpec == ScanInit /\ [][ScanNext]_vars

\* ------------------------------------------------- main: the three runs
\* main is sequential and nothing runs beside it, so how many accesses one
\* step of the model takes is immaterial to the states it passes through at
\* the ends of its loops: the loops are taken DriverChunk accesses at a time.
RunOrder == <<"LRU", "SRRIP", "COALESCE">>

\* mutant: a hot range that fits in the ways of one set
HotAddr_fits(k) == k % 8

\* sim.access(k % 16, 0xF00D, 4, MODIFIED)
HotAddr(k) == k % 16

\* sim.access(1000 + i + (epoch*100), 0xBAD, 0, EXCLUSIVE)
ScanAddr(epoch, i) == 1000 + i + (epoch * 100)

\* TRUE of every Simulator: comparing the policy state and the history with
\* themselves has TLC compute their functions once an access, before the
\* next access reads them
Evaluated(sim) ==
    /\ sim.lru_stacks = sim.lru_stacks
    /\ sim.rrpv_bits = sim.rrpv_bits
    /\ sim.weights = sim.weights
    /\ sim.last = sim.last

\* the Simulator `sim` as a set of one element: TLC computes an element of
\* a set once, however often the rest of the loop reads it
Once(sim) == {after \in {sim} : Evaluated(after)}

\* the element of a set of one element
Only(S) == CHOOSE x \in S : TRUE

\* iterations i .. n-1 of the scanner loop: the first half, then the rest
RECURSIVE RunScan(_, _, _, _)
RunScan(sim, epoch, i, n) ==
    IF i >= n THEN sim
    ELSE IF n = i + 1
    THEN Only(Once(access(sim, ScanAddr(epoch, i), PC_BAD, 0, EXCLUSIVE)))
    ELSE Only({RunScan(half, epoch, (i + n) \div 2, n) :
                  half \in Once(RunScan(sim, epoch, i, (i + n) \div 2))})

\* iterations k .. n-1 of the ping-pong loop: the first half, then the rest
RECURSIVE RunHot(_, _, _)
RunHot(sim, k, n) ==
    IF k >= n THEN sim
    ELSE IF n = k + 1
    THEN Only(Once(access(sim, HotAddr(k), PC_F00D, 4, MODIFIED)))
    ELSE Only({RunHot(half, (k + n) \div 2, n) :
                  half \in Once(RunHot(sim, k, (k + n) \div 2))})

\* the number of valid lines a hot access (pc 0xF00D) installed.  A hit
\* rewrites no line and a scanner miss installs a line of pc 0xBAD, so over
\* scanner accesses this number falls by one for each hot line overwritten.
HotLines(sim) ==
    Cardinality({sw \in (0..(sim.num_sets - 1)) \X (0..(sim.ways - 1)) :
                    /\ sim.cache[sw[1]][sw[2]].valid
                    /\ sim.cache[sw[1]][sw[2]].pc = PC_F00D})

ChunkEnd(i, len) == IF i + DriverChunk < len THEN i + DriverChunk ELSE len

DriverInit ==
    /\ TracerStarts /\ PredictorStarts
    /\ Starts(Constructed(NUM_SETS, WAYS, RunOrder[1], BrainConstruct))
    /\ fv = FvIdle
    /\ driver = [run |-> 1, epoch |-> 0, phase |-> "scan", i |-> 0,
                 hot_hits |-> 0, flushes |-> 0]
    /\ results = <<>>
    /\ touch_count = <<>>

\* Phase A: the next accesses of the scanner loop
DriverScan ==
    /\ UNCHANGED <<tracer_vars, predictor_vars>>
    /\ driver.phase = "scan"
    /\ LET n == ChunkEnd(driver.i, SCAN_LEN)
           after == RunScan(Sim, driver.epoch, driver.i, n)
           counted == [driver EXCEPT
                          !.flushes = driver.flushes
                                        + (HotLines(Sim) - HotLines(after))]
       IN  /\ Becomes(after)
           /\ driver' = IF n < SCAN_LEN
                        THEN [counted EXCEPT !.i = n]
                        ELSE [counted EXCEPT !.phase = "hot", !.i = 0]
    /\ UNCHANGED <<fv, results, touch_count>>

\* Phase B: the next accesses of the ping-pong loop
DriverHot ==
    /\ UNCHANGED <<tracer_vars, predictor_vars>>
    /\ driver.phase = "hot"
    /\ LET n == ChunkEnd(driver.i, HOT_LEN)
           after == RunHot(Sim, driver.i, n)
           counted == [driver EXCEPT
                          !.hot_hits = driver.hot_hits + (after.hits - hits)]
       IN  /\ Becomes(after)
           /\ driver' =
                 IF n < HOT_LEN THEN [counted EXCEPT !.i = n]
                 ELSE IF driver.epoch + 1 < EPOCHS
                 THEN [counted EXCEPT !.phase = "scan", !.i = 0,
                                      !.epoch = driver.epoch + 1]
                 ELSE [counted EXCEPT !.phase = "stats", !.i = 0]
    /\ UNCHANGED <<fv, results, touch_count>>

\* sim.print_stats(); then the next policy object and Simulator are made
DriverStats ==
    /\ UNCHANGED <<tracer_vars, predictor_vars>>
    /\ driver.phase = "stats"
    /\ results' = Append(results,
          [name |-> policy, hits |-> hits, misses |-> misses,
           wins |-> coherence_traffic_saved, hot_hits |-> driver.hot_hits,
           flushes |-> driver.flushes])
    /\ IF driver.run < Len(RunOrder)
       THEN /\ driver' = [run |-> driver.run + 1, epoch |-> 0,
                          phase |-> "scan", i |-> 0, hot_hits |-> 0,
                          flushes |-> 0]
            /\ Becomes(Constructed(NUM_SETS, WAYS, RunOrder[driver.run + 1],
                                   weights))
       ELSE /\ driver' = [driver EXCEPT !.phase = "done"]
            /\ UNCHANGED <<num_sets, ways, policy, cache, hits, misses,
                           coherence_traffic_saved, lru_stacks, rrpv_bits,
                           weights, samplers, is_sampled, last>>
    /\ UNCHANGED <<fv, touch_count>>

DriverNext == DriverScan \/ DriverHot \/ DriverStats

DriverSpec == DriverInit /\ [][DriverNext]_vars

\* ------------------------------------------ the tracer: arbitrary requests
\* the Simulator stays as constructed while another program is explored
SimulatorIdle ==
    /\ Starts(Constructed(ModelSets, ModelWays, "LRU", BrainConstruct))
    /\ fv = FvIdle
    /\ driver = DriverIdle
    /\ results = <<>>
    /\ touch_count = <<>>

Cores == 0..(ModelCores - 1)
Addresses == 0..(ModelMemory - 1)

MesiInit ==
    /\ SimulatorIdle
    /\ TracerStarts
    /\ PredictorStarts

ReadRequest ==
    /\ \E coreId \in Cores : \E address \in Addresses :
          /\ directory' = handleReadRequest(directory, coreId, address)
          /\ request' = [op |-> "read", coreId |-> coreId,
                         address |-> address, found |-> directory[address]]
    /\ UNCHANGED <<simulator_vars, predictor_vars>>

WriteRequest ==
    /\ \E coreId \in Cores : \E address \in Addresses :
          /\ directory' = handleWriteRequest(directory, coreId, address)
          /\ request' = [op |-> "write", coreId |-> coreId,
                         address |-> address, found |-> directory[address]]
    /\ UNCHANGED <<simulator_vars, predictor_vars>>

MesiNext == ReadRequest \/ WriteRequest

MesiSpec == MesiInit /\ [][MesiNext]_vars

\* --------------------------- the earlier PerceptronPredictor: train, get_vote
\* brain.get_vote(0xF00D, 4) and a second sharer count under the same pc
PredictorSigs == {<<PC_F00D, 4>>, <<PC_F00D, 0>>}

PredictorInit ==
    /\ SimulatorIdle
    /\ TracerStarts
    /\ PredictorStarts

PredictorTrain ==
    /\ consulted.calls < MaxTrains
    /\ \E sig \in PredictorSigs : \E positive \in BOOLEAN :
          LET after == PerceptronPredictor_train(table0, table1, sig[1],
                                                 sig[2], positive)
          IN  /\ table0' = after.table0
              /\ table1' = after.table1
              /\ consulted' = [calls |-> consulted.calls + 1, op |-> "train",
                               pc |-> sig[1], sharers |-> sig[2], vote |-> 0]
    /\ UNCHANGED <<simulator_vars, tracer_vars>>

PredictorGetVote ==
    /\ consulted.op = "train"
    /\ \E sig \in PredictorSigs :
          consulted' = [consulted EXCEPT
                           !.op = "get_vote", !.pc = sig[1],
                           !.sharers = sig[2],
                           !.vote = get_vote(table0, table1, sig[1], sig[2])]
    /\ UNCHANGED <<simulator_vars, tracer_vars, table0, table1>>

PredictorNext == PredictorTrain \/ PredictorGetVote

PredictorSpec == PredictorInit /\ [][PredictorNext]_vars

\* ------------------------------------------- print_stats called at any time
MaxReports == 1

\* 100.0 * hits / (hits + misses) as printed with two decimals, in
\* hundredths of a percent.  With no access the quotient is 0.0 / 0.0: not a
\* number, printed "nan" or "-nan" as the build has it.
HitRates(h, m) ==
    IF h + m = 0
    THEN {[kind |-> "nan", hundredths |-> 0],
          [kind |-> "-nan", hundredths |-> 0]}
    ELSE {[kind |-> "percent",
           hundredths |-> (20000 * h + (h + m)) \div (2 * (h + m))]}

\* Simulator::print_stats: the line it prints and the divisor it divided by
print_stats(sim) ==
    {[name |-> sim.policy, divisor |-> sim.hits + sim.misses,
      hit_rate |-> rate, wins |-> sim.coherence_traffic_saved] :
        rate \in HitRates(sim.hits, sim.misses)}

PrintStats ==
    /\ UNCHANGED <<tracer_vars, predictor_vars>>
    /\ Len(results) < MaxReports
    /\ \E line \in print_stats(Sim) : results' = Append(results, line)
    /\ UNCHANGED <<num_sets, ways, policy, cache, hits, misses,
                   coherence_traffic_saved, lru_stacks, rrpv_bits, weights,
                   samplers, is_sampled, fv, driver, last, touch_count>>

StatsNext == Access \/ PrintStats

StatsSpec == Init /\ [][StatsNext]_vars

\* ------------------------------------------------------------------ claims
AllValid(set) == \A w \in DOMAIN set : set[w].valid
SomeInvalid(set) == \E w \in DOMAIN set : ~set[w].valid
Evicted == last.op = "miss" /\ last.pre[last.way].valid

\* C1: under each policy, after any sequence of accesses, no set holds two
\* valid lines with the same tag.
C1_NoDuplicateTag ==
    \A s \in SetsOf : \A w1, w2 \in WaysOf :
        (w1 # w2 /\ cache[s][w1].valid /\ cache[s][w2].valid)
            => cache[s][w1].tag # cache[s][w2].tag

\* a full set after an eviction, with hits among the accesses
C1_Witness ==
    /\ Evicted
    /\ hits > 0
    /\ AllValid(cache[last.set])

\* C2: whenever find_victim is called on a set that has an invalid way, the
\* way it returns holds an invalid line (LRU, SRRIP and COALESCE).
C2_EmptySlotFirst ==
    (last.op = "miss" /\ SomeInvalid(last.pre)) => ~last.pre[last.way].valid

\* SRRIP fills way 1 after scanning the valid way 0 whose line was hit before
C2_Witness ==
    /\ policy = "SRRIP"
    /\ last.op = "miss"
    /\ last.pre[0].valid
    /\ last.pre_rrpv[0] = 0
    /\ last.way = 1

\* C4: COALESCE find_victim on a full set never returns a Modified way A when
\* a way B that is not Modified has the same raw predicted score.
C4_ModifiedProtected ==
    (policy = "COALESCE" /\ last.op = "miss" /\ AllValid(last.pre)) =>
        \A A, B \in WaysOf :
            (/\ last.pre[A].state = MODIFIED
             /\ last.pre[B].state # MODIFIED
             /\ last.raw[A] = last.raw[B]) => last.way # A

\* the Modified way has few sharers, the other way many, equal raw scores
C4_Witness ==
    /\ policy = "COALESCE"
    /\ Evicted
    /\ AllValid(last.pre)
    /\ \E A, B \in WaysOf :
          /\ last.pre[A].state = MODIFIED
          /\ last.pre[A].sharers <= 2
          /\ last.pre[B].state # MODIFIED
          /\ last.pre[B].sharers > 2
          /\ last.raw[A] = last.raw[B]
          /\ last.way = B

\* C5: under LRU the ranks of every set are a permutation of 0..WAYS-1, and
\* right after a hit or an install on way w the rank of w is 0.
C5_LruPermutation ==
    policy = "LRU" =>
        /\ \A s \in SetsOf : {lru_stacks[s][w] : w \in WaysOf} = WaysOf
        /\ last.op # "none" => lru_stacks[last.set][last.way] = 0

\* a hit on the way that held the largest rank
C5_Witness ==
    /\ policy = "LRU"
    /\ last.op = "hit"
    /\ last.pre_lru[last.way] = ways - 1

\* C7: as long as no more than WAYS distinct addresses have been accessed,
\* every first touch is a miss and every other access a hit; K addresses
\* accessed R > 1 times each leave exactly K misses and (R-1)*K hits.
C7_HotWorkload ==
    LET K == Cardinality(DOMAIN touch_count)
    IN  K <= ways =>
            /\ misses = K
            /\ hits = Accesses - K
            /\ \A R \in 2..MaxAccesses :
                  (\A a \in DOMAIN touch_count : touch_count[a] = R)
                      => (misses = K /\ hits = (R - 1) * K)

\* two addresses of the same set, each accessed twice under one annotation
C7_Witness ==
    /\ DOMAIN touch_count = {0, 1}
    /\ touch_count[0] = 2
    /\ touch_count[1] = 2
    /\ ways = 2
    /\ \A w \in WaysOf :
          /\ cache[0][w].pc = PC_F00D
          /\ cache[0][w].sharers = 4
          /\ cache[0][w].state = MODIFIED
    /\ last.pc = PC_F00D
    /\ last.op = "hit"

\* C3: after any sequence of train calls every weight lies in [-128, 127];
\* a positive train at 127 leaves 127 and a negative train at -128 leaves
\* -128.
C3_WeightsSaturate ==
    LET idx == get_hash(last.pc, last.sharers, last.state)
        before == WeightAt(last.pre_weights, idx)
    IN  /\ \A i \in 0..(PERCEPTRON_TABLE_SIZE - 1) :
              WeightAt(weights, i) \in -128..127
        /\ (last.op = "train" /\ last.positive /\ before = 127)
              => WeightAt(weights, idx) = 127
        /\ (last.op = "train" /\ ~last.positive /\ before = -128)
              => WeightAt(weights, idx) = -128

\* a positive train on an entry at 127 while another entry sits at -128
C3_Witness ==
    /\ last.op = "train"
    /\ last.positive
    /\ WeightAt(last.pre_weights,
                get_hash(last.pc, last.sharers, last.state)) = 127
    /\ \E i \in DOMAIN weights : weights[i] = -128

\* C10: predict leaves the weight table as it was, and a predict that
\* directly follows a predict of the same signature returns the same value.
C10_PredictPure ==
    last.op = "predict" =>
        /\ weights = last.pre_weights
        /\ (last.prev_op = "predict"
              /\ last.prev_sig = <<last.pc, last.sharers, last.state>>)
              => last.value = last.prev_value

\* a predict right after a predict of the same signature, on a trained entry
C10_Witness ==
    /\ last.op = "predict"
    /\ last.prev_op = "predict"
    /\ last.prev_sig = <<last.pc, last.sharers, last.state>>
    /\ last.value # 0
    /\ last.n >= 3

\* C6: SRRIP find_victim terminates: with every RRPV in 0..3 the
\* scan-then-age loop returns a way after at most 3 ageing rounds.
C6_SrripTerminates ==
    /\ [](\A s \in SetsOf : \A w \in WaysOf : rrpv_bits[s][w] \in 0..3)
    /\ [](fv.rounds <= 3)
    /\ (fv.pc = "scan") ~> (fv.pc = "idle")

\* find_victim returned after three ageing rounds
C6_Witness ==
    /\ policy = "SRRIP"
    /\ last.op = "miss"
    /\ last.rounds = 3
    /\ fv.pc = "idle"

\* C8: an access to an address never accessed before is a miss; a scan of
\* strictly increasing addresses, longer than the cache has lines, leaves
\* zero hits under LRU and under COALESCE.
C8_FirstTouchMisses ==
    /\ (last.op # "none" /\ touch_count[last.addr] = 1) => last.op = "miss"
    /\ (policy \in {"LRU", "COALESCE"}
          /\ \A a \in DOMAIN touch_count : touch_count[a] = 1) => hits = 0

\* more fresh addresses than the cache has lines, the last one evicting
C8_Witness ==
    /\ policy = "COALESCE"
    /\ Accesses > num_sets * ways
    /\ \A a \in DOMAIN touch_count : touch_count[a] = 1
    /\ Evicted
    /\ hits = 0

\* C9: on the driver's interleaved workload the COALESCE run ends with more
\* coherence wins and more hits on hot-line accesses than the LRU run.
C9_CoalesceBeatsLru ==
    driver.phase = "done" =>
        /\ results[1].name = "LRU"
        /\ results[3].name = "COALESCE"
        /\ results[3].wins > results[1].wins
        /\ results[3].hot_hits > results[1].hot_hits

\* the three runs are over, each of 10000 accesses
C9_Witness ==
    /\ driver.phase = "done"
    /\ Len(results) = 3
    /\ \A r \in 1..3 :
          results[r].hits + results[r].misses = EPOCHS * (SCAN_LEN + HOT_LEN)
    /\ results[3].wins = 1743
    /\ results[3].hot_hits = 1743
    /\ results[3].hits = 2234
    /\ results[1].hits = 16
    /\ results[1].hot_hits = 0

\* C11: under COALESCE no sampled set ever holds more than SAMPLER_SIZE
\* eviction records, and an append to a full ring drops the oldest record.
C11_SamplerRing ==
    /\ [](policy = "COALESCE" =>
             \A s \in SetsOf :
                 is_sampled[s] => Len(samplers[s]) <= SAMPLER_SIZE)
    /\ [][(policy = "COALESCE") =>
             \A s \in SetsOf :
                 (is_sampled[s] /\ Len(samplers[s]) = SAMPLER_SIZE
                     /\ samplers'[s] # samplers[s])
                 => /\ Len(samplers'[s]) = SAMPLER_SIZE
                    /\ SubSeq(samplers'[s], 1, SAMPLER_SIZE - 1)
                          = Tail(samplers[s])]_vars

\* C12: print_stats on a Simulator that has processed no access reports a
\* defined sentinel for the hit rate, and the division is never evaluated
\* with a zero divisor.
C12_ZeroAccessGuarded ==
    \A k \in 1..Len(results) :
        /\ results[k].divisor # 0
        /\ results[k].hit_rate.kind \notin {"nan", "-nan"}

\* C13: every find_victim call that access issues, under each of the three
\* policies, returns a way of the set: the way of the miss just handled is
\* in range, and so is the way a miss on any set would get in this state.
C13_VictimInRange ==
    /\ (last.op = "miss") => (last.way \in WaysOf)
    /\ \A s \in SetsOf : FindVictim(Sim, s).way \in WaysOf

\* COALESCE scored a full set and chose its last way
C13_Witness ==
    /\ policy = "COALESCE"
    /\ Evicted
    /\ AllValid(last.pre)
    /\ last.way = ways - 1

\* C14: under COALESCE an access, hit or miss, to a set that is not sampled
\* leaves the weight table and every sampler record as they were, and no
\* access changes the sampled flags.
C14_UnsampledFrame ==
    [][/\ is_sampled' = is_sampled
       /\ (policy = "COALESCE" /\ ~is_sampled[last'.set])
             => (weights' = weights /\ samplers' = samplers)]_vars

\* COALESCE scored a full set that is not sampled and evicted one of its lines
C14_Witness ==
    /\ policy = "COALESCE"
    /\ Evicted
    /\ AllValid(last.pre)
    /\ ~is_sampled[last.set]

\* C15: the coherence-win counter goes up by exactly one on an access that
\* hits a line whose stored state is Modified or whose stored sharer count
\* exceeds one, and is unchanged by every other access; it never exceeds
\* the hit counter.
C15_CoherenceWins ==
    /\ [](coherence_traffic_saved <= hits)
    /\ [][LET line == cache[last'.set][last'.way]
              win == /\ hits' = hits + 1
                     /\ (line.state = MODIFIED \/ line.sharers > 1)
          IN  coherence_traffic_saved' =
                  coherence_traffic_saved + (IF win THEN 1 ELSE 0)]_vars

\* a hit on a line stored Shared with four sharers counts, after a hit that
\* did not
C15_Witness ==
    /\ last.op = "hit"
    /\ last.pre[last.way].state # MODIFIED
    /\ last.pre[last.way].sharers > 1
    /\ coherence_traffic_saved > 0
    /\ coherence_traffic_saved < hits

\* the vote of way w in the miss just handled: what predict returned for the
\* way, plus 60 for a Modified line, plus 30 for more than two sharers
AdjustedVote(w) ==
    last.raw[w] + (IF last.pre[w].state = MODIFIED THEN 60 ELSE 0)
                + (IF last.pre[w].sharers > 2 THEN 30 ELSE 0)

\* C16: COALESCE find_victim on a set whose ways are all valid returns a way
\* of minimum adjusted vote, and the lowest such way.
C16_MinAdjustedVote ==
    (policy = "COALESCE" /\ last.op = "miss" /\ AllValid(last.pre)) =>
        \A w \in WaysOf :
            /\ AdjustedVote(last.way) <= AdjustedVote(w)
            /\ (w < last.way) => (AdjustedVote(w) > AdjustedVote(last.way))

\* two ways tie at the minimum and the first of them is evicted
C16_Witness ==
    /\ policy = "COALESCE"
    /\ Evicted
    /\ AllValid(last.pre)
    /\ last.way = 0
    /\ \E w \in WaysOf : w > 0 /\ AdjustedVote(w) = AdjustedVote(0)

\* C17: under COALESCE a hit in a sampled set trains positively the weight
\* indexed by the signature stored in the resident line, leaves the weight
\* indexed by the incoming access's signature alone when the two indices
\* differ, and changes no other weight.
C17_HitTrainsStored ==
    [][(policy = "COALESCE" /\ hits' = hits + 1 /\ is_sampled[last'.set]) =>
          LET line == cache[last'.set][last'.way]
              stored == get_hash(line.pc, line.sharers, line.state)
              incoming == get_hash(last'.pc, last'.sharers, last'.state)
              before == WeightAt(weights, stored)
          IN  /\ WeightAt(weights', stored) =
                    (IF before < 127 THEN before + 1 ELSE before)
              /\ (incoming # stored) =>
                    (WeightAt(weights', incoming) = WeightAt(weights, incoming))
              /\ \A i \in (DOMAIN weights \cup DOMAIN weights') \ {stored} :
                    WeightAt(weights', i) = WeightAt(weights, i)]_vars

\* a hit in the sampled set 0 by an access whose signature indexes another
\* weight than the line's: the line's weight has gone up by one
C17_Witness ==
    /\ policy = "COALESCE"
    /\ last.op = "hit"
    /\ is_sampled[last.set]
    /\ LET line == last.pre[last.way]
           stored == get_hash(line.pc, line.sharers, line.state)
       IN  /\ get_hash(last.pc, last.sharers, last.state) # stored
           /\ WeightAt(weights, stored) = last.raw[last.way] + 1

\* C18: under COALESCE a miss in a sampled set whose ways are all valid
\* lowers by one, saturating at -128, the weight indexed by the signature
\* stored in the victim, and changes no other weight (the incoming access's
\* signature is not trained); a miss that fills an invalid way changes no
\* weight and appends no eviction record.
C18_MissTrainsVictim ==
    [][(policy = "COALESCE" /\ misses' = misses + 1) =>
          LET set == cache[last'.set]
              victim == set[last'.way]
              stored == get_hash(victim.pc, victim.sharers, victim.state)
              incoming == get_hash(last'.pc, last'.sharers, last'.state)
              before == WeightAt(weights, stored)
          IN  /\ (is_sampled[last'.set] /\ \A w \in WaysOf : set[w].valid) =>
                    /\ WeightAt(weights', stored) =
                          (IF before > -128 THEN before - 1 ELSE before)
                    /\ (incoming # stored) =>
                          (WeightAt(weights', incoming)
                              = WeightAt(weights, incoming))
                    /\ \A i \in (DOMAIN weights \cup DOMAIN weights')
                                    \ {stored} :
                          WeightAt(weights', i) = WeightAt(weights, i)
              /\ (\E w \in WaysOf : ~set[w].valid) =>
                    (weights' = weights /\ samplers' = samplers)]_vars

\* an eviction in the sampled set 0 of a way other than way 0, by an access
\* whose signature indexes another weight: the victim's weight is one lower
C18_Witness ==
    /\ policy = "COALESCE"
    /\ Evicted
    /\ AllValid(last.pre)
    /\ is_sampled[last.set]
    /\ last.way > 0
    /\ LET victim == last.pre[last.way]
           stored == get_hash(victim.pc, victim.sharers, victim.state)
       IN  /\ get_hash(last.pc, last.sharers, last.state) # stored
           /\ WeightAt(weights, stored) = last.raw[last.way] - 1

\* C19: under LRU the ranks agree with the reference recency list kept by
\* move-to-front on every hit and install (the k-th latest way has rank
\* k - 1), and find_victim on a set whose ways are all valid returns the one
\* way of rank ways - 1, which is the last way of the reference list.
C19_LruMatchesRecency ==
    /\ [](policy = "LRU" =>
            \A s \in DOMAIN last.recency :
                \A k \in 1..Len(last.recency[s]) :
                    lru_stacks[s][last.recency[s][k]] = k - 1)
    /\ [][(policy = "LRU" /\ misses' = misses + 1
              /\ \A w \in WaysOf : cache[last'.set][w].valid) =>
             /\ Len(last.recency[last'.set]) = ways
             /\ last'.way = last.recency[last'.set][ways]
             /\ \A w \in WaysOf :
                   (lru_stacks[last'.set][w] = ways - 1) <=> (w = last'.way)]_vars

\* after a hit on the line installed first, the line installed after it is
\* the one evicted
C19_Witness ==
    /\ policy = "LRU"
    /\ Evicted
    /\ AllValid(last.pre)
    /\ hits > 0
    /\ last.way > 0
    /\ last.pre_lru[last.way] = ways - 1
    /\ last.recency[last.set][1] = last.way

\* the highest value of a set's RRPV vector
MaxRrpv(rr) ==
    CHOOSE m \in {rr[w] : w \in DOMAIN rr} : \A w \in DOMAIN rr : rr[w] <= m

\* the lowest way holding the highest value
FirstAtMax(rr) == Min({w \in DOMAIN rr : rr[w] = MaxRrpv(rr)})

\* C20: SRRIP find_victim on a set whose ways are all valid returns the
\* lowest way among those that held the set's highest value before the
\* call; at return that way's value is 3, no lower way's value is 3, and
\* every way's value has gone up by 3 minus the highest value before.  It
\* is stated of the call a miss on any full set would issue in the state,
\* and of the miss just handled (whose victim has since been installed).
C20_SrripVictim ==
    policy = "SRRIP" =>
        /\ \A s \in SetsOf :
              AllValid(cache[s]) =>
                  LET r == SRRIP_find_victim(cache[s], rrpv_bits[s], ways, 0)
                      rise == 3 - MaxRrpv(rrpv_bits[s])
                  IN  /\ r.way = FirstAtMax(rrpv_bits[s])
                      /\ r.rrpv[r.way] = 3
                      /\ \A w \in WaysOf : (w < r.way) => (r.rrpv[w] # 3)
                      /\ \A w \in WaysOf : r.rrpv[w] = rrpv_bits[s][w] + rise
                      /\ r.rounds = rise
        /\ (last.op = "miss" /\ AllValid(last.pre)) =>
              /\ last.way = FirstAtMax(last.pre_rrpv)
              /\ last.rounds = 3 - MaxRrpv(last.pre_rrpv)
              /\ \A w \in WaysOf \ {last.way} :
                    rrpv_bits[last.set][w] = last.pre_rrpv[w] + last.rounds

\* a full set whose highest value, below 3, was held by its last way only
C20_Witness ==
    /\ policy = "SRRIP"
    /\ Evicted
    /\ AllValid(last.pre)
    /\ last.rounds > 0
    /\ last.way > 0
    /\ last.pre_rrpv[last.way] = MaxRrpv(last.pre_rrpv)

\* C21: a miss adds one to the miss counter and leaves the hit counter; the
\* way find_victim returns in the accessed set becomes a valid line with
\* the incoming tag, pc, sharers and state, and no other line of the cache
\* changes.
C21_MissInstallsOneLine ==
    [][(misses' # misses) =>
          LET s == SetIndex(last'.addr, num_sets)
              w == FindVictim(Sim, s).way
              line == cache'[s][w]
          IN  /\ misses' = misses + 1
              /\ hits' = hits
              /\ last'.set = s /\ last'.way = w
              /\ line.valid
              /\ line.tag = last'.addr
              /\ line.pc = last'.pc
              /\ line.sharers = last'.sharers
              /\ line.state = last'.state
              /\ \A s2 \in SetsOf : \A w2 \in WaysOf :
                    (s2 # s \/ w2 # w) => (cache'[s2][w2] = cache[s2][w2])]_vars

\* a miss replaced a line of another signature while a line of the other set
\* and the other lines of its own set stayed
C21_Witness ==
    /\ Evicted
    /\ AllValid(last.pre)
    /\ last.pre[last.way].pc # last.pc
    /\ last.pre[last.way].sharers # last.sharers
    /\ cache[last.set][last.way].sharers = last.sharers
    /\ \E s \in SetsOf \ {last.set} : cache[s][0].valid

\* C22: a hit adds one to the hit counter and leaves the valid, tag, pc,
\* sharers and state fields of every cache line as they were, also when the
\* incoming access carries another pc, sharer count or coherence state than
\* the resident line; the miss counter does not move.
C22_HitKeepsLines ==
    [][(hits' # hits) =>
          /\ hits' = hits + 1
          /\ misses' = misses
          /\ last'.op = "hit"
          /\ \A s \in SetsOf : \A w \in WaysOf :
                /\ cache'[s][w].valid = cache[s][w].valid
                /\ cache'[s][w].tag = cache[s][w].tag
                /\ cache'[s][w].pc = cache[s][w].pc
                /\ cache'[s][w].sharers = cache[s][w].sharers
                /\ cache'[s][w].state = cache[s][w].state]_vars

\* a hit whose pc, sharer count and state all differ from the resident line's
C22_Witness ==
    /\ last.op = "hit"
    /\ last.pre[last.way].pc # last.pc
    /\ last.pre[last.way].sharers # last.sharers
    /\ last.pre[last.way].state # last.state
    /\ cache[last.set][last.way].pc = last.pre[last.way].pc

\* the valid ways of a set
ValidWays(set) == {w \in DOMAIN set : set[w].valid}

\* C23: under each policy a valid line never becomes invalid again; in each
\* set the valid ways are the way indices 0..k-1 for some k; under LRU the
\* valid ways hold exactly the ranks 0..k-1; under SRRIP a victim search
\* ages a set only when every way of it is valid, so a set that still has
\* an invalid way holds only the values 0 and 2 in its valid ways and the
\* initial 3 in the others.
C23_FilledInOrder ==
    /\ [](\A s \in SetsOf :
            LET k == Cardinality(ValidWays(cache[s]))
            IN  /\ ValidWays(cache[s]) = 0..(k - 1)
                /\ (policy = "LRU") =>
                      {lru_stacks[s][w] : w \in ValidWays(cache[s])}
                          = 0..(k - 1)
                /\ (policy = "SRRIP" /\ k < ways) =>
                      \A w \in WaysOf :
                          IF w < k THEN rrpv_bits[s][w] \in {0, 2}
                          ELSE rrpv_bits[s][w] = 3)
    /\ [][/\ \A s \in SetsOf : ValidWays(cache[s]) \subseteq ValidWays(cache'[s])
          /\ (last'.rounds > 0) => AllValid(cache[last'.set])]_vars

\* SRRIP has aged a full set while the other set is filled only in part
C23_Witness ==
    /\ policy = "SRRIP"
    /\ last.op = "miss"
    /\ last.rounds > 0
    /\ AllValid(last.pre)
    /\ \E s \in SetsOf : /\ cache[s][0].valid
                         /\ SomeInvalid(cache[s])

\* LRU holds a set filled in part and a full set
C23_LruWitness ==
    /\ policy = "LRU"
    /\ \E s \in SetsOf : cache[s][0].valid /\ SomeInvalid(cache[s])
    /\ \E s \in SetsOf : AllValid(cache[s])

\* C24: in the driver's run under LRU the scanner flushes the hot lines: by
\* the end of the run at least one scanner access (pc 0xBAD) has missed and
\* overwritten a valid line a hot access (pc 0xF00D) installed.
C24_ScannerFlushesHot ==
    (driver.run = 1 /\ driver.phase = "stats") =>
        (policy = "LRU" /\ driver.flushes > 0)

\* C25: in the directory tracer, after any sequence of read and write
\* requests, an entry in MODIFIED or EXCLUSIVE has exactly one sharer, an
\* entry in INVALID has none and an entry in SHARED has at least one; after
\* a write by core c the entry is MODIFIED and its sharers are exactly {c}.
C25_DirectoryEntries ==
    /\ \A address \in Addresses :
          LET line == directory[address]
          IN  /\ line.state \in {"MODIFIED", "EXCLUSIVE", "SHARED", "INVALID"}
              /\ line.state \in {"MODIFIED", "EXCLUSIVE"} =>
                    Cardinality(line.sharers) = 1
              /\ line.state = "INVALID" => line.sharers = {}
              /\ line.state = "SHARED" => Cardinality(line.sharers) >= 1
    /\ request.op = "write" =>
          directory[request.address] =
              [state |-> "MODIFIED", sharers |-> {request.coreId}]

\* a write found the line SHARED by the writer and another core
C25_Witness ==
    /\ request.op = "write"
    /\ request.found.state = "SHARED"
    /\ request.coreId \in request.found.sharers
    /\ Cardinality(request.found.sharers) > 1
    /\ \E address \in Addresses : directory[address].state = "EXCLUSIVE"

\* C26: whenever a read request finds the line in EXCLUSIVE or MODIFIED and
\* downgrades it to SHARED, the one core holding it privately is another
\* core than the requester.
C26_DowngradeByOtherCore ==
    (/\ request.op = "read"
     /\ request.found.state \in {"EXCLUSIVE", "MODIFIED"}) =>
        /\ directory[request.address].state = "SHARED"
        /\ request.found.sharers # {request.coreId}

\* C27: after any sequence of train calls, get_vote returns a value in
\* -128..127 for every pc and sharer count.
C27_VoteInInt8 ==
    /\ \A sig \in PredictorSigs :
          get_vote(table0, table1, sig[1], sig[2]) \in -128..127
    /\ consulted.op = "get_vote" => consulted.vote \in -128..127

====
